---- MODULE Spec2Model ----
(***************************************************************************)
(* hl_exporter.py: three rotating-log tailers (proposer, block, consensus) *)
(* that follow the most recently modified file of a directory and feed     *)
(* each line to a per-family extractor, which updates Prometheus metrics.  *)
(*                                                                         *)
(* Numbers are carried in tenths (x10): 100 is 1000, 0.5 is 5.             *)
(* A file offset is the number of lines already consumed.                  *)
(***************************************************************************)
EXTENDS Integers, Sequences, FiniteSets, TLC

\* ------------------------------------------------------------------ bounds
\* Most lines the tailers hand to their extractors, all families together
\* (re-reads are unbounded in the code; the guard of ReadLine caps them).
MaxReads == 3
\* Most lines the files of all directories may hold together.
MaxTotal == 2
\* Longest line sequence fed to an extractor in SpecExtract.
MaxFeed == 3
\* Most refresh cycles the refresher begins in SpecCache.
MaxRefreshes == 2
\* Most summaries in one response of the validator API.
MaxSummaries == 2
\* Greatest modification time of a file in SpecWatcher (0 is the epoch).
MaxMtime == 2

\* ------------------------------------------------------------- JSON values
JNull == [t |-> "null"]
JStr(s) == [t |-> "str", s |-> s]
JNum(x) == [t |-> "num", x10 |-> x]
JDict(d) == [t |-> "dict", v |-> d]
JList(l) == [t |-> "list", v |-> l]
JSONDecodeError == [t |-> "JSONDecodeError"]
EmptyDict == JDict(<<>>)
EmptyList == JList(<<>>)

Tenths(i, d) == 10 * i + d

\* ---------------------------------------------------------------- the lines
\* Proposer family (replica_cmds).
LP_A == "{\"abci_block\":{\"proposer\":\"0xA\",\"round\":1}}"
LP_B == "{\"abci_block\":{\"proposer\":\"0xB\"}}"
LP_Num == "{\"abci_block\":{\"proposer\":7}}"
LP_NoProposer == "{\"abci_block\":{\"round\":2}}"
LP_NullProposer == "{\"abci_block\":{\"proposer\":null}}"
LP_EmptyProposer == "{\"abci_block\":{\"proposer\":\"\"}}"
LP_NoBlock == "{\"other\":1}"
LP_NullBlock == "{\"abci_block\":null}"
LP_List == "[1]"
\* Block family (block_times).
LB_100 == "{\"height\":100,\"block_time\":\"t1\",\"apply_duration\":0.5}"
LB_101 == "{\"height\":101,\"block_time\":\"t2\",\"apply_duration\":0.7}"
LB_HeightOnly == "{\"height\":102}"
LB_ApplyOnly == "{\"apply_duration\":0.9}"
LB_BadApply == "{\"height\":103,\"apply_duration\":\"abc\"}"
LB_BadHeight == "{\"height\":\"abc\",\"apply_duration\":0.3}"
LB_Strings == "{\"height\":\"104\",\"apply_duration\":\"0.4\"}"
LB_FloatHeight == "{\"height\":105.7,\"apply_duration\":1}"
LB_List == "[100,0.5]"
\* Consensus family.
LC_1 == "[\"t\",[\"s\",{\"jailed_validators\":[\"0xaaaa..0001\"],\"execution_state\":{\"round_to_stakes\":[[1,[[\"0xaaaa..0001\",10],[\"0xbbbb..0002\",5]]],[2,[[\"0xaaaa..0001\",10]]]]}}]]"
LC_2 == "[\"t\",[\"s\",{\"jailed_validators\":[\"0xbbbb..0002\",\"0xcccc..0003\"],\"execution_state\":{\"round_to_stakes\":[[3,[[\"0xbbbb..0002\",5]]]]}}]]"
LC_NoJailed == "[\"t\",[\"s\",{\"execution_state\":{\"round_to_stakes\":[[4,[[\"0xaaaa..0001\",10]]]]}}]]"
LC_NoState == "[\"t\",[\"s\",{\"jailed_validators\":[\"0xaaaa..0001\"]}]]"
LC_NullJailed == "[\"t\",[\"s\",{\"jailed_validators\":null,\"execution_state\":{\"round_to_stakes\":[[5,[[\"0xaaaa..0001\",10]]]]}}]]"
LC_BadRound == "[\"t\",[\"s\",{\"jailed_validators\":[],\"execution_state\":{\"round_to_stakes\":[[6]]}}]]"
LC_Short == "[\"t\"]"
LC_Dict == "{\"jailed_validators\":[]}"
\* Not JSON at all.
L_Garbage == "not json"
L_Truncated == "{\"height\":100,"
L_Blank == ""

Stake(short, amount) == JList(<<JStr(short), JNum(Tenths(amount, 0))>>)
Round(n, stakes) == JList(<<JNum(Tenths(n, 0)), JList(stakes)>>)
Consensus(body) == JList(<<JStr("t"), JList(<<JStr("s"), JDict(body)>>)>>)

\* json.loads on the lines above (hl_exporter.py:75, 141, 244).
json_loads(line) ==
  CASE line = LP_A -> JDict([abci_block |-> JDict([proposer |-> JStr("0xA"), round |-> JNum(10)])])
    [] line = LP_B -> JDict([abci_block |-> JDict([proposer |-> JStr("0xB")])])
    [] line = LP_Num -> JDict([abci_block |-> JDict([proposer |-> JNum(70)])])
    [] line = LP_NoProposer -> JDict([abci_block |-> JDict([round |-> JNum(20)])])
    [] line = LP_NullProposer -> JDict([abci_block |-> JDict([proposer |-> JNull])])
    [] line = LP_EmptyProposer -> JDict([abci_block |-> JDict([proposer |-> JStr("")])])
    [] line = LP_NoBlock -> JDict([other |-> JNum(10)])
    [] line = LP_NullBlock -> JDict([abci_block |-> JNull])
    [] line = LP_List -> JList(<<JNum(10)>>)
    [] line = LB_100 -> JDict([height |-> JNum(1000), block_time |-> JStr("t1"), apply_duration |-> JNum(5)])
    [] line = LB_101 -> JDict([height |-> JNum(1010), block_time |-> JStr("t2"), apply_duration |-> JNum(7)])
    [] line = LB_HeightOnly -> JDict([height |-> JNum(1020)])
    [] line = LB_ApplyOnly -> JDict([apply_duration |-> JNum(9)])
    [] line = LB_BadApply -> JDict([height |-> JNum(1030), apply_duration |-> JStr("abc")])
    [] line = LB_BadHeight -> JDict([height |-> JStr("abc"), apply_duration |-> JNum(3)])
    [] line = LB_Strings -> JDict([height |-> JStr("104"), apply_duration |-> JStr("0.4")])
    [] line = LB_FloatHeight -> JDict([height |-> JNum(1057), apply_duration |-> JNum(10)])
    [] line = LB_List -> JList(<<JNum(1000), JNum(5)>>)
    [] line = LC_1 -> Consensus([jailed_validators |-> JList(<<JStr("0xaaaa..0001")>>),
                                 execution_state |-> JDict([round_to_stakes |-> JList(<<
                                    Round(1, <<Stake("0xaaaa..0001", 10), Stake("0xbbbb..0002", 5)>>),
                                    Round(2, <<Stake("0xaaaa..0001", 10)>>)>>)])])
    [] line = LC_2 -> Consensus([jailed_validators |-> JList(<<JStr("0xbbbb..0002"), JStr("0xcccc..0003")>>),
                                 execution_state |-> JDict([round_to_stakes |-> JList(<<
                                    Round(3, <<Stake("0xbbbb..0002", 5)>>)>>)])])
    [] line = LC_NoJailed -> Consensus([execution_state |-> JDict([round_to_stakes |-> JList(<<
                                    Round(4, <<Stake("0xaaaa..0001", 10)>>)>>)])])
    [] line = LC_NoState -> Consensus([jailed_validators |-> JList(<<JStr("0xaaaa..0001")>>)])
    [] line = LC_NullJailed -> Consensus([jailed_validators |-> JNull,
                                 execution_state |-> JDict([round_to_stakes |-> JList(<<
                                    Round(5, <<Stake("0xaaaa..0001", 10)>>)>>)])])
    [] line = LC_BadRound -> Consensus([jailed_validators |-> EmptyList,
                                 execution_state |-> JDict([round_to_stakes |-> JList(<<
                                    JList(<<JNum(60)>>)>>)])])
    [] line = LC_Short -> JList(<<JStr("t")>>)
    [] line = LC_Dict -> JDict([jailed_validators |-> EmptyList])
    [] OTHER -> JSONDecodeError

\* dict.get(key, default); the caller has checked d.t = "dict".
dict_get(d, key, default) == IF key \in DOMAIN d.v THEN d.v[key] ELSE default

\* Python truthiness of a JSON value (hl_exporter.py:78).
truthy(v) ==
  CASE v.t = "null" -> FALSE
    [] v.t = "str" -> v.s # ""
    [] v.t = "num" -> v.x10 # 0
    [] v.t = "list" -> Len(v.v) > 0
    [] v.t = "dict" -> DOMAIN v.v # {}
    [] OTHER -> FALSE

\* str() of a label value, as prometheus_client applies it in labels().
py_str(v) ==
  CASE v.t = "str" -> v.s
    [] v.t = "num" /\ v.x10 = 70 -> "7"
    [] OTHER -> "<object>"

ValueError == [ok |-> FALSE, x10 |-> 0]
Value(x) == [ok |-> TRUE, x10 |-> x]

\* int(): truncates a number toward zero, parses a decimal integer string.
py_int(v) ==
  CASE v.t = "num" -> Value(IF v.x10 >= 0 THEN (v.x10 \div 10) * 10 ELSE 0 - (((0 - v.x10) \div 10) * 10))
    [] v.t = "str" /\ v.s = "104" -> Value(1040)
    [] OTHER -> ValueError

\* float(): a number as it is, a numeric string parsed.
py_float(v) ==
  CASE v.t = "num" -> Value(v.x10)
    [] v.t = "str" /\ v.s = "104" -> Value(1040)
    [] v.t = "str" /\ v.s = "0.4" -> Value(4)
    [] OTHER -> ValueError

\* -------------------------------------------------------------- extractors
\* Counter.labels(proposer=label).inc(): the child is created at 0 on first use.
counter_value(counter, label) == IF label \in DOMAIN counter THEN counter[label] ELSE 0
counter_inc(counter, label) ==
  [l \in DOMAIN counter \cup {label} |->
     IF l = label THEN counter_value(counter, label) + 1 ELSE counter[l]]

\* What an extractor call leaves behind: the metric it writes, and whether an
\* exception left the call (then the stream function ends with it).
Returned(value) == [raised |-> FALSE, value |-> value]

\* Mutant: the truthiness test of line 78 is missing, so a record without a
\* proposer counts under the label of None or of the empty string.
parse_log_line_untested(line, counter) ==
  LET log_entry == json_loads(line) IN
  IF log_entry.t = "JSONDecodeError" THEN Returned(counter)
  ELSE IF log_entry.t # "dict" THEN Returned(counter)
  ELSE LET abci_block == dict_get(log_entry, "abci_block", EmptyDict) IN
       IF abci_block.t # "dict" THEN Returned(counter)
       ELSE LET proposer == dict_get(abci_block, "proposer", JNull) IN
            Returned(counter_inc(counter, IF proposer.t = "null" THEN "None" ELSE py_str(proposer)))

\* parse_log_line: the proposer extractor. JSONDecodeError (82) and every
\* other exception (84; .get on a non-dict) are caught and logged.
parse_log_line(line, counter) ==
  LET log_entry == json_loads(line) IN
  IF log_entry.t = "JSONDecodeError" THEN Returned(counter)
  ELSE IF log_entry.t # "dict" THEN Returned(counter)
  ELSE LET abci_block == dict_get(log_entry, "abci_block", EmptyDict) IN
       IF abci_block.t # "dict" THEN Returned(counter)
       ELSE LET proposer == dict_get(abci_block, "proposer", JNull) IN
            IF truthy(proposer) THEN Returned(counter_inc(counter, py_str(proposer)))
            ELSE Returned(counter)

\* Mutant: no except clause, a line that is not JSON raises into the caller.
parse_block_time_line_uncaught(line, gauges) ==
  LET data == json_loads(line) IN
  IF data.t = "JSONDecodeError" THEN [raised |-> TRUE, value |-> gauges]
  ELSE IF data.t # "dict" THEN Returned(gauges)
  ELSE LET block_height == dict_get(data, "height", JNull)
           apply_duration == dict_get(data, "apply_duration", JNull)
           h == py_int(block_height)
           a == py_float(apply_duration)
           after_height == IF block_height.t # "null"
                           THEN [gauges EXCEPT !.height = h.x10] ELSE gauges
       IN IF block_height.t # "null" /\ ~h.ok THEN Returned(gauges)
          ELSE IF apply_duration.t = "null" THEN Returned(after_height)
          ELSE IF ~a.ok THEN Returned(after_height)
          ELSE Returned([after_height EXCEPT !.apply = a.x10])

\* parse_block_time_line: the block extractor. gauges = [height, apply].
\* int() runs and sets the height gauge (149) before float() is tried (153).
parse_block_time_line(line, gauges) ==
  LET data == json_loads(line) IN
  IF data.t = "JSONDecodeError" THEN Returned(gauges)
  ELSE IF data.t # "dict" THEN Returned(gauges)
  ELSE LET block_height == dict_get(data, "height", JNull)
           apply_duration == dict_get(data, "apply_duration", JNull)
           h == py_int(block_height)
           a == py_float(apply_duration)
           after_height == IF block_height.t # "null"
                           THEN [gauges EXCEPT !.height = h.x10] ELSE gauges
       IN IF block_height.t # "null" /\ ~h.ok THEN Returned(gauges)
          ELSE IF apply_duration.t = "null" THEN Returned(after_height)
          ELSE IF ~a.ok THEN Returned(after_height)
          ELSE Returned([after_height EXCEPT !.apply = a.x10])

Range(seq) == { seq[i] : i \in DOMAIN seq }

\* The participating short addresses: round_to_stakes flattened into a set.
\* well_formed is FALSE where the loops of lines 251-255 raise.
stakes_well_formed(round_to_stakes) ==
  /\ round_to_stakes.t = "list"
  /\ \A i \in DOMAIN round_to_stakes.v :
       LET round_entry == round_to_stakes.v[i] IN
       /\ round_entry.t = "list"
       /\ Len(round_entry.v) >= 2
       /\ round_entry.v[2].t = "list"
       /\ \A j \in DOMAIN round_entry.v[2].v :
            LET validator_entry == round_entry.v[2].v[j] IN
            /\ validator_entry.t = "list"
            /\ Len(validator_entry.v) >= 1
            /\ validator_entry.v[1].t = "str"
all_validators(round_to_stakes) ==
  UNION { { validator_entry.v[1].s : validator_entry \in Range(round_entry.v[2].v) } :
            round_entry \in Range(round_to_stakes.v) }

\* validator_short in jailed_validators (line 262), jailed_validators a list.
in_jailed(validator_short, jailed_validators) ==
  \E i \in DOMAIN jailed_validators.v :
     /\ jailed_validators.v[i].t = "str"
     /\ jailed_validators.v[i].s = validator_short

\* Mutant: a cache miss is labelled without the short address.
resolve_anonymous(mapping, validator_short) ==
  IF validator_short \in DOMAIN mapping
  THEN <<mapping[validator_short].full_address, mapping[validator_short].name>>
  ELSE <<"Unknown", "Unknown">>
\* Lines 259-261: the cache lookup with its fallback.
resolve(mapping, validator_short) ==
  IF validator_short \in DOMAIN mapping
  THEN <<mapping[validator_short].full_address, mapping[validator_short].name>>
  ELSE <<validator_short, "Unknown">>

\* Mutant: every label pair the line does not set is cleared to 0.
parse_consensus_log_line_clearing(line, mapping, jailed) ==
  LET data == json_loads(line) IN
  IF data.t = "JSONDecodeError" THEN Returned(jailed)
  ELSE IF ~(data.t = "list" /\ Len(data.v) >= 2) THEN Returned(jailed)
  ELSE IF ~(data.v[2].t = "list" /\ Len(data.v[2].v) >= 2) THEN Returned(jailed)
  ELSE IF data.v[2].v[2].t # "dict" THEN Returned(jailed)
  ELSE LET body == data.v[2].v[2]
           jailed_validators == dict_get(body, "jailed_validators", EmptyList)
           execution_state == dict_get(body, "execution_state", EmptyDict)
       IN IF execution_state.t # "dict" THEN Returned(jailed)
          ELSE LET round_to_stakes == dict_get(execution_state, "round_to_stakes", EmptyList) IN
               IF ~stakes_well_formed(round_to_stakes) THEN Returned(jailed)
               ELSE LET all == all_validators(round_to_stakes)
                        labels == { resolve(mapping, v) : v \in all }
                    IN IF all # {} /\ jailed_validators.t # "list" THEN Returned(jailed)
                       ELSE Returned([k \in DOMAIN jailed \cup labels |->
                               IF k \in labels
                               THEN IF \E v \in all : resolve(mapping, v) = k
                                                       /\ in_jailed(v, jailed_validators)
                                    THEN 1 ELSE 0
                               ELSE 0])

\* parse_consensus_log_line: the jailed-status extractor. jailed maps a
\* (validator, name) label pair to its gauge value. Any exception is caught.
\* The gauge loop (258-263) can only raise on its first membership test, so
\* when it raises no gauge has been set.
parse_consensus_log_line(line, mapping, jailed) ==
  LET data == json_loads(line) IN
  IF data.t = "JSONDecodeError" THEN Returned(jailed)
  ELSE IF ~(data.t = "list" /\ Len(data.v) >= 2) THEN Returned(jailed)
  ELSE IF ~(data.v[2].t = "list" /\ Len(data.v[2].v) >= 2) THEN Returned(jailed)
  ELSE IF data.v[2].v[2].t # "dict" THEN Returned(jailed)
  ELSE LET body == data.v[2].v[2]
           jailed_validators == dict_get(body, "jailed_validators", EmptyList)
           execution_state == dict_get(body, "execution_state", EmptyDict)
       IN IF execution_state.t # "dict" THEN Returned(jailed)
          ELSE LET round_to_stakes == dict_get(execution_state, "round_to_stakes", EmptyList) IN
               IF ~stakes_well_formed(round_to_stakes) THEN Returned(jailed)
               ELSE LET all == all_validators(round_to_stakes)
                        labels == { resolve(mapping, v) : v \in all }
                    IN IF all # {} /\ jailed_validators.t # "list" THEN Returned(jailed)
                       ELSE Returned([k \in DOMAIN jailed \cup labels |->
                               IF k \in labels
                               THEN IF \E v \in all : resolve(mapping, v) = k
                                                       /\ in_jailed(v, jailed_validators)
                                    THEN 1 ELSE 0
                               ELSE jailed[k]])

\* ------------------------------------------------------------------- state
Families == {"proposer", "block", "consensus"}
\* File names of one directory tree, in the order os.walk lists them.
WalkOrder == <<"0001", "0002", "0003">>
Paths == Range(WalkOrder)
None == "None"
StatError == -1

\* The lines the node writes to a family's files in Spec.
TailLines(f) ==
  CASE f = "proposer" -> {LP_A}
    [] f = "block" -> {LB_100}
    [] OTHER -> {LC_1}
\* The lines fed to a family's extractor in SpecExtract.
Lines(f) ==
  CASE f = "proposer" -> {LP_A, LP_B, LP_Num, LP_NoProposer, LP_NullProposer,
                          LP_EmptyProposer, LP_NoBlock, LP_NullBlock, LP_List,
                          L_Garbage, L_Blank}
    [] f = "block" -> {LB_100, LB_101, LB_HeightOnly, LB_ApplyOnly, LB_BadApply,
                       LB_BadHeight, LB_Strings, LB_FloatHeight, LB_List,
                       L_Garbage, L_Truncated}
    [] OTHER -> {LC_1, LC_2, LC_NoJailed, LC_NoState, LC_NullJailed, LC_BadRound,
                 LC_Short, LC_Dict, L_Garbage, L_Blank}

VARIABLES
  live,               \* the families whose thread and directory act in this run
  is_validator,       \* IS_VALIDATOR (line 21)
  validator_address,  \* VALIDATOR_ADDRESS (line 22)
  main_pc,            \* the main thread: 1, 2, 3 start a thread, 4 keeps alive
  dir_exists,         \* [family -> the root directory exists]
  fstate,             \* [family -> [path -> "absent" | "present"]]
  flines,             \* [family -> [path -> the lines of the file]]
  fmtime,             \* [family -> [path -> modification time]]
  pc,                 \* [family -> the tailer thread's position, see Positions]
  latest_file,        \* [family -> the monitor's latest_file]
  first_run,          \* [family -> the monitor's first_run]
  file_path,          \* [family -> path of the file last opened (the cursor)]
  offset,             \* [family -> lines consumed from file_path]
  proposer_counter,   \* hl_proposer_counter: [label -> count]
  block_gauges,       \* hl_block_height_gauge, hl_apply_duration_gauge
  jailed_status,      \* hl_validator_jailed_status: [<<validator, name>> -> 0 | 1]
  validator_mapping,  \* validator_mapping (line 49)
  delivered,          \* history: [family -> [<<path, line number>> -> times delivered]]
  n_pre,              \* history: [family -> lines of 0001 that existed at start]
  watched,            \* history: [family -> the tailer's last step ran the watcher]
  feed_fam,           \* SpecExtract: the extractor under test
  feed_in,            \* SpecExtract: the lines to feed
  feed_pos,           \* SpecExtract: lines fed so far
  refresh_pc,         \* the refresher thread's position
  response,           \* validator_summaries of the refresh in progress
  new_mapping,        \* the refresher's local new_mapping
  summary_i,          \* summaries of the response the loop of 224 has processed
  validator_count,    \* hl_validator_count_gauge
  refreshes,          \* history: refresh cycles begun
  installed,          \* history: the mapping the last completed refresh left
  late_resolved,      \* history: short addresses cached after a miss was observed
  lookup,             \* history: the last cache lookup, [short, answer]
  stat_failed         \* history: the files whose stat failed in the last scan

config == <<live, is_validator, validator_address>>
fs == <<dir_exists, fstate, flines, fmtime>>
tailer == <<pc, latest_file, first_run, file_path, offset>>
metrics == <<proposer_counter, block_gauges, jailed_status>>
history == <<delivered, n_pre, watched>>
feed == <<feed_fam, feed_in, feed_pos>>
cache == <<validator_mapping, refresh_pc, response, new_mapping, summary_i, validator_count,
           refreshes, installed, late_resolved, lookup>>
vars == <<config, main_pc, fs, tailer, metrics, cache, stat_failed, history, feed>>

\* ------------------------------------------------------- Directory Watcher
\* get_latest_file: files is what os.walk lists, in order; mtime[p] is
\* os.path.getmtime(p), or StatError where it raises (the file is skipped).
RECURSIVE latest_scan(_, _, _, _, _)
latest_scan(files, mtime, i, best_file, best_time) ==
  IF i > Len(files) THEN best_file
  ELSE IF mtime[files[i]] # StatError /\ mtime[files[i]] > best_time
       THEN latest_scan(files, mtime, i + 1, files[i], mtime[files[i]])
       ELSE latest_scan(files, mtime, i + 1, best_file, best_time)
get_latest_file(files, mtime) == latest_scan(files, mtime, 1, None, 0)

\* What os.walk lists for family f: nothing when the root does not exist.
Listing(f) ==
  IF dir_exists[f]
  THEN SelectSeq(WalkOrder, LAMBDA p : fstate[f][p] = "present")
  ELSE <<>>
\* getmtime for family f when stat fails on the files in bad.
Stat(f, bad) == [p \in Paths |-> IF p \in bad THEN StatError ELSE fmtime[f][p]]
Present(f) == { p \in Paths : fstate[f][p] = "present" }
\* The watcher's result when every stat succeeds.
Latest(f) == get_latest_file(Listing(f), Stat(f, {}))

\* -------------------------------------------------------------------- Init
NoFiles == [p \in Paths |-> "absent"]
SeqsUpTo(S, n) == UNION { [1..k -> S] : k \in 0..n }

\* Every file that exists at the start was written at the same time.
FreshTimes == [f \in Families |-> [p \in Paths |-> IF fstate[f][p] = "present" THEN 1 ELSE 0]]
NoLookup == [short |-> None, answer |-> <<None, None>>, during |-> None, built |-> 0]

InitCommon ==
  /\ latest_file = [f \in Families |-> None]
  /\ first_run = [f \in Families |-> TRUE]
  /\ file_path = [f \in Families |-> None]
  /\ offset = [f \in Families |-> 0]
  /\ proposer_counter = <<>>
  /\ block_gauges = [height |-> 0, apply |-> 0]
  /\ jailed_status = <<>>
  /\ delivered = [f \in Families |-> <<>>]
  /\ watched = [f \in Families |-> FALSE]
  /\ n_pre = [f \in Families |-> Len(flines[f]["0001"])]
  /\ refresh_pc = "unstarted"
  /\ response = <<>>
  /\ new_mapping = <<>>
  /\ summary_i = 0
  /\ validator_count = 0
  /\ refreshes = 0
  /\ installed = validator_mapping
  /\ late_resolved = {}
  /\ lookup = NoLookup
  /\ stat_failed = {}

\* The process starts: no thread runs yet; the directory of the one live
\* family is missing, empty, or holds the file 0001 with some lines.
Init ==
  /\ \E f \in Families : \E start \in {"no directory", "empty", "one file"} :
     \E content \in SeqsUpTo(TailLines(f), MaxTotal) :
       /\ start # "one file" => content = <<>>
       /\ live = {f}
       /\ dir_exists = [g \in Families |-> g = f /\ start # "no directory"]
       /\ fstate = [g \in Families |->
                      IF g = f /\ start = "one file"
                      THEN [NoFiles EXCEPT !["0001"] = "present"] ELSE NoFiles]
       /\ flines = [g \in Families |-> [p \in Paths |->
                      IF g = f /\ p = "0001" THEN content ELSE <<>>]]
  /\ is_validator \in BOOLEAN
  /\ validator_address \in {"", "0xV"}
  /\ "consensus" \notin live => (is_validator /\ validator_address = "0xV")
  /\ main_pc = 1
  /\ pc = [f \in Families |-> "unstarted"]
  /\ validator_mapping = <<>>
  /\ feed_fam = "proposer" /\ feed_in = <<>> /\ feed_pos = 0
  /\ fmtime = FreshTimes
  /\ InitCommon

\* ------------------------------------------------------------- environment
\* Modification times are kept as ranks among the files of a directory (the
\* watcher only compares them): a write gives its file the greatest one.
Ranked(mtime) ==
  [p \in Paths |-> IF mtime[p] = 0 THEN 0
                   ELSE Cardinality({ q \in Paths : mtime[q] > 0 /\ mtime[q] <= mtime[p] })]
Touched(mtime, p) == Ranked([mtime EXCEPT ![p] = Cardinality(Paths) + 1])

RECURSIVE SumLen(_, _)
SumLen(lines, i) == IF i > Len(WalkOrder) THEN 0 ELSE Len(lines[WalkOrder[i]]) + SumLen(lines, i + 1)
TotalLines(f) == SumLen(flines[f], 1)
\* Lines in the files of all directories together.
AllLines == TotalLines("proposer") + TotalLines("block") + TotalLines("consensus")

\* The node creates the root directory of family f.
MakeDir(f) ==
  /\ ~dir_exists[f]
  /\ dir_exists' = [dir_exists EXCEPT ![f] = TRUE]
  /\ UNCHANGED <<fstate, flines, fmtime>>
  /\ UNCHANGED <<config, main_pc, tailer, metrics, cache, stat_failed, history, feed>>

\* The node rotates: the next file of the directory is created, empty.
CreateFile(f, p) ==
  /\ dir_exists[f]
  /\ fstate[f][p] = "absent"
  /\ \A i \in DOMAIN WalkOrder : \A j \in DOMAIN WalkOrder :
        (WalkOrder[j] = p /\ i < j) => fstate[f][WalkOrder[i]] # "absent"
  /\ fstate' = [fstate EXCEPT ![f][p] = "present"]
  /\ fmtime' = [fmtime EXCEPT ![f] = Touched(@, p)]
  /\ UNCHANGED <<dir_exists, flines>>
  /\ UNCHANGED <<config, main_pc, tailer, metrics, cache, stat_failed, history, feed>>

\* The node appends one whole line to a file (any file, also an older one).
AppendLine(f, p, line) ==
  /\ fstate[f][p] = "present"
  /\ AllLines < MaxTotal
  /\ flines' = [flines EXCEPT ![f][p] = Append(@, line)]
  /\ fmtime' = [fmtime EXCEPT ![f] = Touched(@, p)]
  /\ UNCHANGED <<dir_exists, fstate>>
  /\ UNCHANGED <<config, main_pc, tailer, metrics, cache, stat_failed, history, feed>>

\* ------------------------------------------------------------- main thread
\* __main__ (416-438): the three tailer threads are started in order; the
\* consensus one only if IS_VALIDATOR and VALIDATOR_ADDRESS are set.  The
\* keep-alive loop (459-460) changes no state and is no action.
StartProposal ==
  /\ main_pc = 1
  /\ main_pc' = 2
  /\ pc' = [pc EXCEPT !["proposer"] = "init"]
  /\ UNCHANGED <<latest_file, first_run, file_path, offset>>
  /\ UNCHANGED <<config, fs, metrics, cache, stat_failed, history, feed>>

StartBlock ==
  /\ main_pc = 2
  /\ main_pc' = 3
  /\ pc' = [pc EXCEPT !["block"] = "init"]
  /\ UNCHANGED <<latest_file, first_run, file_path, offset>>
  /\ UNCHANGED <<config, fs, metrics, cache, stat_failed, history, feed>>

StartConsensus ==
  /\ main_pc = 3
  /\ main_pc' = 4
  /\ pc' = IF is_validator /\ validator_address # ""
           THEN [pc EXCEPT !["consensus"] = "init"]
           ELSE pc
  /\ UNCHANGED <<latest_file, first_run, file_path, offset>>
  /\ UNCHANGED <<config, fs, metrics, cache, stat_failed, history, feed>>

\* ----------------------------------------------------------- tailer thread
\* Mutant: the block extractor also resets the proposer counters.
Extracted_resetting(f, line) ==
  CASE f = "proposer" ->
         LET r == parse_log_line(line, proposer_counter) IN
         [raised |-> r.raised, counter |-> r.value, gauges |-> block_gauges, jailed |-> jailed_status]
    [] f = "block" ->
         LET r == parse_block_time_line(line, block_gauges) IN
         [raised |-> r.raised, counter |-> <<>>, gauges |-> r.value, jailed |-> jailed_status]
    [] OTHER ->
         LET r == parse_consensus_log_line(line, validator_mapping, jailed_status) IN
         [raised |-> r.raised, counter |-> proposer_counter, gauges |-> block_gauges, jailed |-> r.value]

\* The extractor of family f applied to one line: the three metrics after it.
Extracted(f, line) ==
  CASE f = "proposer" ->
         LET r == parse_log_line(line, proposer_counter) IN
         [raised |-> r.raised, counter |-> r.value, gauges |-> block_gauges, jailed |-> jailed_status]
    [] f = "block" ->
         LET r == parse_block_time_line(line, block_gauges) IN
         [raised |-> r.raised, counter |-> proposer_counter, gauges |-> r.value, jailed |-> jailed_status]
    [] OTHER ->
         LET r == parse_consensus_log_line(line, validator_mapping, jailed_status) IN
         [raised |-> r.raised, counter |-> proposer_counter, gauges |-> block_gauges, jailed |-> r.value]

Count(f, p, i) == IF <<p, i>> \in DOMAIN delivered[f] THEN delivered[f][<<p, i>>] ELSE 0
RECURSIVE SumOver(_, _)
SumOver(d, keys) ==
  IF keys = {} THEN 0
  ELSE LET k == CHOOSE x \in keys : TRUE IN d[k] + SumOver(d, keys \ {k})
\* Lines family f's tailer has handed to its extractor so far.
Reads(f) == SumOver(delivered[f], DOMAIN delivered[f])
AllReads == Reads("proposer") + Reads("block") + Reads("consensus")
Counted(d, k) == [x \in DOMAIN d \cup {k} |-> IF x = k THEN (IF k \in DOMAIN d THEN d[k] ELSE 0) + 1 ELSE d[x]]

\* Mutant: every file is read from its beginning.
from_start_always(f) == TRUE
\* from_start = not first_run (125, 197, 310).
from_start(f) == ~first_run[f]

\* Where a tailer thread stands.  The end-of-iteration sleep and the loop top
\* that follows it are told apart by how the iteration ended.
Positions ==
  { "unstarted",     \* threading.Thread(...).start() not yet called
    "init",          \* first statement of the monitor function
    "loop_first",    \* top of the monitor loop, first iteration
    "loop_idle",     \* top of the loop after an iteration without a new file
    "loop_failed",   \* top of the loop after a caught exception
    "loop_switch",   \* top of the loop after the stream returned a new file
    "open",          \* about to open latest_file
    "read",          \* in the stream loop, about to call readline
    "check",         \* readline returned '', about to call the watcher
    "sleep_idle",    \* sleeping: no file found, or the stream returned None
    "sleep_failed",  \* sleeping after a caught exception (the backoff)
    "sleep_switch",  \* sleeping after the stream returned a new file
    "returned",      \* the monitor function returned (299)
    "dead" }         \* an exception left the monitor function
LoopTops == {"loop_first", "loop_idle", "loop_failed", "loop_switch"}
Sleeps == {"sleep_idle", "sleep_failed", "sleep_switch"}

\* The first statements of the monitor function.  proposal_count_monitor and
\* block_time_monitor look for the latest file once, before their loop
\* (117, 189); consensus_log_file_monitor returns when its directory does not
\* exist (297-299) and looks for the file inside the loop.
\* Mutant: the consensus monitor polls for its directory instead of returning.
MonitorInit_polling(f) ==
  /\ pc[f] = "init"
  /\ IF f = "consensus"
     THEN /\ pc' = [pc EXCEPT ![f] = "loop_first"]
          /\ watched' = [watched EXCEPT ![f] = FALSE]
          /\ UNCHANGED latest_file
     ELSE /\ \E bad \in SUBSET Present(f) :
               latest_file' = [latest_file EXCEPT ![f] = get_latest_file(Listing(f), Stat(f, bad))]
          /\ watched' = [watched EXCEPT ![f] = TRUE]
          /\ pc' = [pc EXCEPT ![f] = "loop_first"]
  /\ first_run' = [first_run EXCEPT ![f] = TRUE]
  /\ UNCHANGED <<file_path, offset, delivered, n_pre>>
  /\ UNCHANGED <<config, main_pc, fs, metrics, cache, stat_failed, feed>>

MonitorInit(f) ==
  /\ pc[f] = "init"
  /\ IF f = "consensus"
     THEN /\ pc' = [pc EXCEPT ![f] = IF dir_exists[f] THEN "loop_first" ELSE "returned"]
          /\ watched' = [watched EXCEPT ![f] = FALSE]
          /\ UNCHANGED latest_file
     ELSE /\ \E bad \in SUBSET Present(f) :
               latest_file' = [latest_file EXCEPT ![f] = get_latest_file(Listing(f), Stat(f, bad))]
          /\ watched' = [watched EXCEPT ![f] = TRUE]
          /\ pc' = [pc EXCEPT ![f] = "loop_first"]
  /\ first_run' = [first_run EXCEPT ![f] = TRUE]
  /\ UNCHANGED <<file_path, offset, delivered, n_pre>>
  /\ UNCHANGED <<config, main_pc, fs, metrics, cache, stat_failed, feed>>

\* get_latest_file raises (MemoryError, RecursionError in os.walk) where the
\* call is outside every try block (117, 189, 305): the thread ends.
WatcherFault(f) ==
  /\ \/ pc[f] = "init" /\ f # "consensus"
     \/ pc[f] \in LoopTops /\ f = "consensus"
  /\ pc' = [pc EXCEPT ![f] = "dead"]
  /\ watched' = [watched EXCEPT ![f] = FALSE]
  /\ UNCHANGED <<latest_file, first_run, file_path, offset, delivered, n_pre>>
  /\ UNCHANGED <<config, main_pc, fs, metrics, cache, stat_failed, feed>>

\* Top of the monitor loop (120-121, 192-193, 304-306): only the consensus
\* monitor runs the watcher here.
LoopTop(f) ==
  /\ pc[f] \in LoopTops
  /\ IF f = "consensus"
     THEN /\ \E bad \in SUBSET Present(f) :
               latest_file' = [latest_file EXCEPT ![f] = get_latest_file(Listing(f), Stat(f, bad))]
          /\ watched' = [watched EXCEPT ![f] = TRUE]
     ELSE /\ UNCHANGED latest_file
          /\ watched' = [watched EXCEPT ![f] = FALSE]
  /\ pc' = [pc EXCEPT ![f] = IF latest_file'[f] # None THEN "open" ELSE "sleep_idle"]
  /\ UNCHANGED <<first_run, file_path, offset, delivered, n_pre>>
  /\ UNCHANGED <<config, main_pc, fs, metrics, cache, stat_failed, feed>>

\* open() succeeds (93-95, 165-167, 273-275): the cursor is at the end of the
\* file unless from_start.
OpenFile(f) ==
  /\ pc[f] = "open"
  /\ file_path' = [file_path EXCEPT ![f] = latest_file[f]]
  /\ offset' = [offset EXCEPT ![f] = IF from_start(f) THEN 0 ELSE Len(flines[f][latest_file[f]])]
  /\ pc' = [pc EXCEPT ![f] = "read"]
  /\ watched' = [watched EXCEPT ![f] = FALSE]
  /\ UNCHANGED <<latest_file, first_run, delivered, n_pre>>
  /\ UNCHANGED <<config, main_pc, fs, metrics, cache, stat_failed, feed>>

\* open() raises (an OSError): caught at 130, 202, 315; the monitor goes to
\* its sleep.
OpenError(f) ==
  /\ pc[f] = "open"
  /\ pc' = [pc EXCEPT ![f] = "sleep_failed"]
  /\ watched' = [watched EXCEPT ![f] = FALSE]
  /\ UNCHANGED <<latest_file, first_run, file_path, offset, delivered, n_pre>>
  /\ UNCHANGED <<config, main_pc, fs, metrics, cache, stat_failed, feed>>

\* readline() returns a line, which goes to the extractor (98, 111).  An
\* exception leaving the extractor would end the stream function and be
\* caught by the monitor (130, 202, 315).
ReadLine(f) ==
  /\ pc[f] = "read"
  /\ offset[f] < Len(flines[f][file_path[f]])
  /\ AllReads < MaxReads
  /\ LET r == Extracted(f, flines[f][file_path[f]][offset[f] + 1]) IN
       /\ proposer_counter' = r.counter
       /\ block_gauges' = r.gauges
       /\ jailed_status' = r.jailed
       /\ pc' = [pc EXCEPT ![f] = IF r.raised THEN "sleep_failed" ELSE "read"]
  /\ offset' = [offset EXCEPT ![f] = @ + 1]
  /\ delivered' = [delivered EXCEPT ![f] = Counted(@, <<file_path[f], offset[f] + 1>>)]
  /\ watched' = [watched EXCEPT ![f] = FALSE]
  /\ UNCHANGED <<latest_file, first_run, file_path, n_pre>>
  /\ UNCHANGED <<config, main_pc, fs, cache, stat_failed, feed>>

\* readline() returns '' at end of file (98-99).
ReadEof(f) ==
  /\ pc[f] = "read"
  /\ offset[f] >= Len(flines[f][file_path[f]])
  /\ pc' = [pc EXCEPT ![f] = "check"]
  /\ watched' = [watched EXCEPT ![f] = FALSE]
  /\ UNCHANGED <<latest_file, first_run, file_path, offset, delivered, n_pre>>
  /\ UNCHANGED <<config, main_pc, fs, metrics, cache, stat_failed, feed>>

\* readline() or the watcher raises inside the stream function: the file is
\* closed and the exception caught at 130, 202, 315.
StreamError(f) ==
  /\ pc[f] \in {"read", "check"}
  /\ pc' = [pc EXCEPT ![f] = "sleep_failed"]
  /\ watched' = [watched EXCEPT ![f] = FALSE]
  /\ UNCHANGED <<latest_file, first_run, file_path, offset, delivered, n_pre>>
  /\ UNCHANGED <<config, main_pc, fs, metrics, cache, stat_failed, feed>>

\* At end of file the watcher runs (101-108).  A different result ends the
\* stream function with it; the monitor keeps it, and clears first_run, only
\* if it is a file (127-129).  The same result: sleep(1) and read again.
CheckRotation(f) ==
  /\ pc[f] = "check"
  /\ \E bad \in SUBSET Present(f) :
       LET new_file == get_latest_file(Listing(f), Stat(f, bad)) IN
       IF new_file = latest_file[f]
       THEN /\ pc' = [pc EXCEPT ![f] = "read"]
            /\ UNCHANGED <<latest_file, first_run>>
       ELSE IF new_file # None
       THEN /\ pc' = [pc EXCEPT ![f] = "sleep_switch"]
            /\ latest_file' = [latest_file EXCEPT ![f] = new_file]
            /\ first_run' = [first_run EXCEPT ![f] = FALSE]
       ELSE /\ pc' = [pc EXCEPT ![f] = "sleep_idle"]
            /\ UNCHANGED <<latest_file, first_run>>
  /\ watched' = [watched EXCEPT ![f] = TRUE]
  /\ UNCHANGED <<file_path, offset, delivered, n_pre>>
  /\ UNCHANGED <<config, main_pc, fs, metrics, cache, stat_failed, feed>>

\* time.sleep at the end of a loop iteration (136, 208, 321).
Sleep(f) ==
  /\ pc[f] \in Sleeps
  /\ pc' = [pc EXCEPT ![f] = CASE pc[f] = "sleep_idle" -> "loop_idle"
                               [] pc[f] = "sleep_failed" -> "loop_failed"
                               [] OTHER -> "loop_switch"]
  /\ watched' = [watched EXCEPT ![f] = FALSE]
  /\ UNCHANGED <<latest_file, first_run, file_path, offset, delivered, n_pre>>
  /\ UNCHANGED <<config, main_pc, fs, metrics, cache, stat_failed, feed>>

\* ------------------------------------------------------------------- Next
\* The main thread has started every thread before any of them is scheduled:
\* a thread's first statement reads the directory, so what the node did to it
\* before the start is the same as what it does between start and that read.
Started == main_pc = 4

Next ==
  \/ StartProposal
  \/ StartBlock
  \/ StartConsensus
  \/ \E f \in live : Started /\ MonitorInit(f)
  \/ \E f \in live : Started /\ WatcherFault(f)
  \/ \E f \in live : Started /\ LoopTop(f)
  \/ \E f \in live : Started /\ OpenFile(f)
  \/ \E f \in live : Started /\ OpenError(f)
  \/ \E f \in live : Started /\ ReadLine(f)
  \/ \E f \in live : Started /\ ReadEof(f)
  \/ \E f \in live : Started /\ StreamError(f)
  \/ \E f \in live : Started /\ CheckRotation(f)
  \/ \E f \in live : Started /\ Sleep(f)
  \/ \E f \in live : Started /\ MakeDir(f)
  \/ \E f \in live : \E p \in Paths : Started /\ CreateFile(f, p)
  \/ \E f \in live : \E p \in Paths : \E line \in TailLines(f) : Started /\ AppendLine(f, p, line)

Spec == Init /\ [][Next]_vars

\* Every tailer thread takes its steps; the node and the faults need not.
TailerStep(f) ==
  Started /\ f \in live /\ ( MonitorInit(f) \/ LoopTop(f) \/ OpenFile(f) \/ ReadLine(f)
                             \/ ReadEof(f) \/ CheckRotation(f) \/ Sleep(f) )
FairSpec ==
  /\ Spec
  /\ WF_vars(StartProposal \/ StartBlock \/ StartConsensus)
  /\ \A f \in Families : WF_vars(TailerStep(f))

\* ------------------------------------------------------------- SpecExtract
\* One extractor fed a sequence of lines, as the stream loop (97-111) feeds it:
\* line after line, until an exception leaves the extractor.
Mapping1 ==
  [short \in {"0xaaaa..0001"} |->
     [full_address |-> "0xaaaa000000000000000000000000000000000001", name |-> "Alice"]]

InitExtract ==
  /\ live = {}
  /\ is_validator = TRUE
  /\ validator_address = "0xV"
  /\ main_pc = 4
  /\ dir_exists = [f \in Families |-> FALSE]
  /\ fstate = [f \in Families |-> NoFiles]
  /\ flines = [f \in Families |-> [p \in Paths |-> <<>>]]
  /\ feed_fam \in Families
  /\ feed_in \in SeqsUpTo(Lines(feed_fam), MaxFeed)
  /\ feed_pos = 0
  /\ pc = [f \in Families |-> IF f = feed_fam THEN "read" ELSE "unstarted"]
  /\ validator_mapping \in (IF feed_fam = "consensus" THEN {<<>>, Mapping1} ELSE {<<>>})
  /\ fmtime = FreshTimes
  /\ InitCommon

Feed ==
  /\ pc[feed_fam] = "read"
  /\ feed_pos < Len(feed_in)
  /\ LET r == Extracted(feed_fam, feed_in[feed_pos + 1]) IN
       /\ proposer_counter' = r.counter
       /\ block_gauges' = r.gauges
       /\ jailed_status' = r.jailed
       /\ pc' = [pc EXCEPT ![feed_fam] = IF r.raised THEN "sleep_failed" ELSE "read"]
  /\ feed_pos' = feed_pos + 1
  /\ UNCHANGED <<feed_fam, feed_in>>
  /\ UNCHANGED <<latest_file, first_run, file_path, offset>>
  /\ UNCHANGED <<config, main_pc, fs, cache, stat_failed, history>>

NextExtract == Feed

SpecExtract == InitExtract /\ [][NextExtract]_vars

\* ------------------------------------------------------------------ claims
\* C1: in every poll in which the tailer has no file, the Directory Watcher
\* is run again (so that a file that appears later is found and streamed).
C1_PollRerunsWatcher ==
  [][\A f \in Families :
       (pc[f] = "loop_idle" /\ latest_file[f] = None /\ pc'[f] \in {"open", "sleep_idle"})
         => watched'[f]]_vars

\* C2: after a tailer detected that another file B is the latest, the file it
\* opens next is B, at offset 0, also when yet another file has become the
\* latest during the sleep between detection and opening.
C2_SwitchOpensDetectedFile ==
  [][\A f \in Families :
       /\ (pc[f] = "loop_switch" /\ pc'[f] = "open" /\ latest_file'[f] = Latest(f))
            => latest_file'[f] = latest_file[f]
       /\ (pc[f] = "open" /\ pc'[f] = "read" /\ ~first_run[f])
            => offset'[f] = 0]_vars

\* C3 as claimed: none of the lines that file 0001 held when the process
\* started is ever delivered to the extractor.
C3_NoReplayEver ==
  \A f \in Families : \A i \in 1..n_pre[f] : Count(f, "0001", i) = 0

\* C3 as amended: none of the lines that file 0001 held when the process
\* started is delivered as long as the tailer has not switched to another
\* file (first_run is still set).
C3_NoReplayBeforeSwitch ==
  \A f \in Families : first_run[f] => \A i \in 1..n_pre[f] : Count(f, "0001", i) = 0

\* C3 witness: the tailer started on a file with existing lines, has not
\* switched, and has delivered a line appended after the start.
C3_Witness ==
  \E f \in Families :
     /\ first_run[f] /\ n_pre[f] >= 1 /\ file_path[f] = "0001"
     /\ Count(f, "0001", n_pre[f] + 1) = 1

\* C4: no line of any file is delivered to the extractor more than once.
C4_NoDuplicate ==
  \A f \in Families : \A k \in DOMAIN delivered[f] : delivered[f][k] <= 1

\* C5: while the file the tailer follows is the latest of its directory, the
\* cursor moves forward on it only by delivering the line it passes (no line
\* appended to the current file is skipped, also across a re-open).
C5_NoSkipOnCurrentFile ==
  [][\A f \in Families :
       ( /\ file_path'[f] = file_path[f]
         /\ Latest(f) = file_path[f]
         /\ offset'[f] > offset[f] )
       => (offset'[f] = offset[f] + 1 /\ delivered'[f] # delivered[f])]_vars

\* C6: the read offset never decreases while the path of the followed file is
\* unchanged.
C6_OffsetMonotone ==
  [][\A f \in Families : file_path'[f] = file_path[f] => offset'[f] >= offset[f]]_vars

\* C7: after a caught I/O error and the backoff sleep, the tailer runs the
\* Directory Watcher again before it opens a file.
C7_FailureReturnsToLocating ==
  [][\A f \in Families :
       (pc[f] = "loop_failed" /\ pc'[f] \in {"open", "sleep_idle"}) => watched'[f]]_vars

\* C8: a tailer thread that terminated unexpectedly is eventually restarted.
C8_DeadTailerRestarted ==
  \A f \in Families : (pc[f] = "dead") ~> (pc[f] # "dead")

\* C9: delivering a line that is not valid JSON leaves every metric unchanged
\* and leaves the stream loop running (no exception reaches the tailer).
NotJson == {L_Garbage, L_Truncated, L_Blank}
C9_NonJsonLeavesMetrics ==
  [][(feed_pos' = feed_pos + 1 /\ feed_in[feed_pos'] \in NotJson)
       => (UNCHANGED metrics /\ pc'[feed_fam] = "read")]_vars

\* C9 witness: a non-JSON line was delivered after a line that set a metric,
\* and the loop went on to deliver the line after it.
C9_Witness ==
  /\ feed_pos = 3
  /\ feed_in[2] \in NotJson
  /\ feed_in[1] \notin NotJson /\ feed_in[3] \notin NotJson
  /\ pc[feed_fam] = "read"
  /\ feed_fam = "block"
  /\ block_gauges.height # 0

\* C10: the counter of every proposer identifier equals the number of lines
\* fed so far that are valid records naming that identifier; malformed lines
\* and records naming no proposer count for nothing.
NamedProposer(line) ==
  CASE line = LP_A -> "0xA"
    [] line = LP_B -> "0xB"
    [] line = LP_Num -> "7"
    [] OTHER -> None
C10_CounterCountsRecords ==
  feed_fam = "proposer" =>
    \A id \in {"0xA", "0xB", "7"} \cup DOMAIN proposer_counter :
       counter_value(proposer_counter, id)
         = Cardinality({ i \in 1..feed_pos : NamedProposer(feed_in[i]) = id })

\* C10 witness: two records naming 0xA around a malformed line.
C10_Witness ==
  /\ feed_fam = "proposer"
  /\ feed_pos = 3
  /\ feed_in = <<LP_A, L_Garbage, LP_A>>
  /\ counter_value(proposer_counter, "0xA") = 2
  /\ counter_value(proposer_counter, "0xB") = 0

\* What the consensus lines say, read off the lines themselves: the lines
\* every parse step accepts, their participating set and their jailed list.
WellFormedConsensus == {LC_1, LC_2, LC_NoJailed, LC_NoState}
Participating(line) ==
  CASE line = LC_1 -> {"0xaaaa..0001", "0xbbbb..0002"}
    [] line = LC_2 -> {"0xbbbb..0002"}
    [] line = LC_NoJailed -> {"0xaaaa..0001"}
    [] OTHER -> {}
JailedIn(line) ==
  CASE line = LC_1 -> {"0xaaaa..0001"}
    [] line = LC_2 -> {"0xbbbb..0002", "0xcccc..0003"}
    [] line = LC_NoState -> {"0xaaaa..0001"}
    [] OTHER -> {}
JailedBit(line, short) == IF short \in JailedIn(line) THEN 1 ELSE 0
FedConsensus ==
  /\ feed_fam = "consensus"
  /\ feed_pos' = feed_pos + 1
  /\ feed_in[feed_pos'] \in WellFormedConsensus

\* C11: processing a participating short address that is absent from the
\* cache (the cache may be empty) does not fail and sets the jailed-status
\* gauge under the labels (that short address, "Unknown").
C11_ResolverFallback ==
  [][FedConsensus =>
       /\ pc'[feed_fam] = "read"
       /\ \A short \in Participating(feed_in[feed_pos']) \ DOMAIN validator_mapping :
            /\ <<short, "Unknown">> \in DOMAIN jailed_status'
            /\ jailed_status'[<<short, "Unknown">>] = JailedBit(feed_in[feed_pos'], short)]_vars

\* C11 witness: with Alice cached and 0xbbbb..0002 not, LC_1 was processed:
\* the miss is labelled by its short address and "Unknown".
C11_Witness ==
  /\ feed_fam = "consensus" /\ validator_mapping = Mapping1
  /\ feed_pos = 1 /\ feed_in[1] = LC_1
  /\ pc[feed_fam] = "read"
  /\ <<"0xbbbb..0002", "Unknown">> \in DOMAIN jailed_status
  /\ jailed_status[<<"0xbbbb..0002", "Unknown">>] = 0
  /\ <<"0xaaaa..0001", "Unknown">> \notin DOMAIN jailed_status

\* C20: processing a well-formed consensus line sets the gauge of the
\* resolved labels of every participating short address to 1 if the address
\* is in the line's jailed list and to 0 otherwise, and leaves the gauge of
\* every other label pair as it was (none is cleared, none is added).
C20_ConsensusFrame ==
  [][FedConsensus =>
       LET line == feed_in[feed_pos']
           labels == { resolve(validator_mapping, short) : short \in Participating(line) }
       IN /\ \A short \in Participating(line) :
               /\ resolve(validator_mapping, short) \in DOMAIN jailed_status'
               /\ jailed_status'[resolve(validator_mapping, short)] = JailedBit(line, short)
          /\ DOMAIN jailed_status' = DOMAIN jailed_status \cup labels
          /\ \A k \in DOMAIN jailed_status \ labels : jailed_status'[k] = jailed_status[k]]_vars

\* C20 witness: LC_1 then LC_2 were processed. Alice dropped out of the
\* participating set and keeps her 1; 0xbbbb..0002 went from 0 to 1; the
\* jailed 0xcccc..0003, which does not participate, has no observation.
C20_Witness ==
  /\ feed_fam = "consensus" /\ validator_mapping = Mapping1
  /\ feed_pos = 2 /\ feed_in[1] = LC_1 /\ feed_in[2] = LC_2
  /\ jailed_status[<<"0xaaaa000000000000000000000000000000000001", "Alice">>] = 1
  /\ jailed_status[<<"0xbbbb..0002", "Unknown">>] = 1
  /\ DOMAIN jailed_status = {<<"0xaaaa000000000000000000000000000000000001", "Alice">>,
                             <<"0xbbbb..0002", "Unknown">>}

\* The lines on which a parse or conversion step of the extractor fails
\* although the line is valid JSON.
ParseErrorLines ==
  {LP_List, LP_NullBlock, LB_BadApply, LB_BadHeight, LB_List,
   LC_NullJailed, LC_BadRound, LC_Short, LC_Dict}

\* C18: a line on which any parse or conversion step fails changes no metric
\* at all (a line is never applied partially).
C18_ParseErrorDropsLine ==
  [][(feed_pos' = feed_pos + 1 /\ feed_in[feed_pos'] \in ParseErrorLines)
       => UNCHANGED metrics]_vars

\* What the block lines that parse completely carry, in tenths.
CarriesHeight == {LB_100, LB_101, LB_HeightOnly, LB_Strings, LB_FloatHeight}
CarriesApply == {LB_100, LB_101, LB_ApplyOnly, LB_Strings, LB_FloatHeight}
HeightOf(line) ==
  CASE line = LB_100 -> 1000
    [] line = LB_101 -> 1010
    [] line = LB_HeightOnly -> 1020
    [] line = LB_Strings -> 1040
    [] OTHER -> 1050
ApplyOf(line) ==
  CASE line = LB_100 -> 5
    [] line = LB_101 -> 7
    [] line = LB_ApplyOnly -> 9
    [] line = LB_Strings -> 4
    [] OTHER -> 10
RECURSIVE LastHeight(_)
LastHeight(i) ==
  IF i = 0 THEN 0
  ELSE IF feed_in[i] \in CarriesHeight THEN HeightOf(feed_in[i]) ELSE LastHeight(i - 1)
RECURSIVE LastApply(_)
LastApply(i) ==
  IF i = 0 THEN 0
  ELSE IF feed_in[i] \in CarriesApply THEN ApplyOf(feed_in[i]) ELSE LastApply(i - 1)

\* C19: after any sequence of lines the height gauge equals the height of the
\* most recent successfully parsed line that carried a height, and the
\* apply-duration gauge the apply_duration of the most recent successfully
\* parsed line that carried one.
C19_LastWriteWins ==
  feed_fam = "block" =>
    /\ block_gauges.height = LastHeight(feed_pos)
    /\ block_gauges.apply = LastApply(feed_pos)

\* C17: when a tailer switches away from a file, every line the file held at
\* the moment the watcher reported the different latest file has been
\* delivered: the cursor stands at the end of the old file.
C17_SwitchAfterFullConsumption ==
  [][\A f \in Families :
       (pc[f] = "check" /\ pc'[f] = "sleep_switch")
         => offset[f] = Len(flines[f][file_path[f]])]_vars

\* ------------------------------------------------------------- SpecWatcher
\* get_latest_file called once on a directory tree in any condition: root
\* missing or present, any set of files, any modification times from the
\* epoch on, stat failing on any of the files.
InitWatcher ==
  /\ live = {}
  /\ is_validator = TRUE
  /\ validator_address = "0xV"
  /\ main_pc = 4
  /\ feed_fam \in Families
  /\ feed_in = <<>>
  /\ feed_pos = 0
  /\ \E exists \in BOOLEAN : \E files \in SUBSET Paths : \E times \in [Paths -> 0..MaxMtime] :
       /\ (~exists) => files = {}
       /\ dir_exists = [f \in Families |-> f = feed_fam /\ exists]
       /\ fstate = [f \in Families |-> [p \in Paths |->
                      IF f = feed_fam /\ p \in files THEN "present" ELSE "absent"]]
       /\ fmtime = [f \in Families |-> [p \in Paths |->
                      IF f = feed_fam /\ p \in files THEN times[p] ELSE 0]]
  /\ flines = [f \in Families |-> [p \in Paths |-> <<>>]]
  /\ pc = [f \in Families |-> IF f = feed_fam THEN "init" ELSE "unstarted"]
  /\ validator_mapping = <<>>
  /\ InitCommon

\* The call of lines 117, 189, 305: stat fails on the files of some set.
Scan ==
  /\ pc[feed_fam] = "init"
  /\ \E bad \in SUBSET Present(feed_fam) :
       /\ stat_failed' = bad
       /\ latest_file' = [latest_file EXCEPT ![feed_fam] =
                            get_latest_file(Listing(feed_fam), Stat(feed_fam, bad))]
  /\ pc' = [pc EXCEPT ![feed_fam] = "loop_first"]
  /\ watched' = [watched EXCEPT ![feed_fam] = TRUE]
  /\ UNCHANGED <<first_run, file_path, offset, delivered, n_pre>>
  /\ UNCHANGED <<config, main_pc, fs, metrics, cache, feed>>

NextWatcher == Scan

SpecWatcher == InitWatcher /\ [][NextWatcher]_vars

\* The files of the scanned tree that can be stat'ed.
Statable == IF dir_exists[feed_fam] THEN Present(feed_fam) \ stat_failed ELSE {}

\* C16: get_latest_file returns a file whose modification time is the
\* greatest among the files of the tree that can be stat'ed, and returns
\* "no file found" exactly when the tree has no such file.
C16_WatcherContract ==
  pc[feed_fam] = "loop_first" =>
    /\ (latest_file[feed_fam] = None) <=> (Statable = {})
    /\ latest_file[feed_fam] # None =>
         /\ latest_file[feed_fam] \in Statable
         /\ \A q \in Statable : fmtime[feed_fam][q] <= fmtime[feed_fam][latest_file[feed_fam]]

\* --------------------------------------------------------------- SpecCache
\* update_validator_mapping (211-237) against concurrent cache lookups (259).
FullA == "0xaaaa000000000000000000000000000000000001"
FullTwin == "0xaaaa111111111111111111111111111111110001"
FullB == "0xbbbb000000000000000000000000000000000002"
\* One summary of the response: a dict with or without its keys.
S_Alice == [validator |-> FullA, name |-> "Alice"]
S_Twin == [validator |-> FullTwin, name |-> "Twin"]
S_Bob == [validator |-> FullB]
S_NoValidator == [name |-> "Nobody"]
Summaries == {S_Alice, S_Twin, S_Bob, S_NoValidator}
Responses == SeqsUpTo(Summaries, MaxSummaries)
Shorts == {"0xaaaa..0001", "0xbbbb..0002"}

\* f"{full_address[:6]}..{full_address[-4:]}" (line 227).
shortened_address(full_address) ==
  CASE full_address = FullA -> "0xaaaa..0001"
    [] full_address = FullTwin -> "0xaaaa..0001"
    [] OTHER -> "0xbbbb..0002"

\* One pass of the loop body 224-228: new_mapping with the entry of summary.
with_entry(mapping, summary) ==
  LET full_address == summary.validator
      name == IF "name" \in DOMAIN summary THEN summary.name ELSE "Unknown"
      shortened == shortened_address(full_address)
  IN [k \in DOMAIN mapping \cup {shortened} |->
        IF k = shortened THEN [full_address |-> full_address, name |-> name]
        ELSE mapping[k]]

\* The thread is started (453-455).
StartRefresher ==
  /\ refresh_pc = "unstarted"
  /\ refresh_pc' = "fetch"
  /\ UNCHANGED <<validator_mapping, response, new_mapping, summary_i, validator_count,
                 refreshes, installed, late_resolved, lookup>>
  /\ UNCHANGED <<config, main_pc, fs, tailer, metrics, stat_failed, history, feed>>

\* Mutant: the new mapping starts from the entries of the old one.
Fetch_merging ==
  /\ refresh_pc = "fetch"
  /\ refreshes < MaxRefreshes
  /\ refreshes' = refreshes + 1
  /\ response' \in Responses
  /\ new_mapping' = validator_mapping
  /\ summary_i' = 0
  /\ refresh_pc' = "build"
  /\ UNCHANGED <<validator_mapping, validator_count, installed, late_resolved, lookup>>
  /\ UNCHANGED <<config, main_pc, fs, tailer, metrics, stat_failed, history, feed>>

\* Lines 216-223: the request succeeds with some response; new_mapping = {}.
Fetch ==
  /\ refresh_pc = "fetch"
  /\ refreshes < MaxRefreshes
  /\ refreshes' = refreshes + 1
  /\ response' \in Responses
  /\ new_mapping' = <<>>
  /\ summary_i' = 0
  /\ refresh_pc' = "build"
  /\ UNCHANGED <<validator_mapping, validator_count, installed, late_resolved, lookup>>
  /\ UNCHANGED <<config, main_pc, fs, tailer, metrics, stat_failed, history, feed>>

\* Lines 220-222 raise (request, HTTP status or JSON error): caught at 234,
\* then the sleep of 237.
FetchError ==
  /\ refresh_pc = "fetch"
  /\ refreshes < MaxRefreshes
  /\ refreshes' = refreshes + 1
  /\ UNCHANGED <<validator_mapping, refresh_pc, response, new_mapping, summary_i,
                 validator_count, installed, late_resolved, lookup>>
  /\ UNCHANGED <<config, main_pc, fs, tailer, metrics, stat_failed, history, feed>>

\* The mapping a response stands for: one entry per short address, the last
\* summary with that short address deciding.  Valid: every summary names its
\* validator, so the refresh succeeds.
Valid(resp) == \A i \in DOMAIN resp : "validator" \in DOMAIN resp[i]
MappingOf(resp) ==
  [k \in { shortened_address(resp[i].validator) : i \in DOMAIN resp } |->
     LET i == CHOOSE i \in DOMAIN resp :
                 /\ shortened_address(resp[i].validator) = k
                 /\ \A j \in DOMAIN resp : j > i => shortened_address(resp[j].validator) # k
     IN [full_address |-> resp[i].validator,
         name |-> IF "name" \in DOMAIN resp[i] THEN resp[i].name ELSE "Unknown"]]

\* Mutant: the entry is written into the mapping the readers use.
AddEntry_in_place ==
  /\ refresh_pc = "build"
  /\ summary_i < Len(response)
  /\ "validator" \in DOMAIN response[summary_i + 1]
  /\ new_mapping' = with_entry(new_mapping, response[summary_i + 1])
  /\ validator_mapping' = new_mapping'
  /\ summary_i' = summary_i + 1
  /\ UNCHANGED <<refresh_pc, response, validator_count, refreshes, installed, late_resolved, lookup>>
  /\ UNCHANGED <<config, main_pc, fs, tailer, metrics, stat_failed, history, feed>>

\* Lines 224-228: one summary is entered into the local new_mapping.
AddEntry ==
  /\ refresh_pc = "build"
  /\ summary_i < Len(response)
  /\ "validator" \in DOMAIN response[summary_i + 1]
  /\ new_mapping' = with_entry(new_mapping, response[summary_i + 1])
  /\ summary_i' = summary_i + 1
  /\ UNCHANGED <<validator_mapping, refresh_pc, response, validator_count,
                 refreshes, installed, late_resolved, lookup>>
  /\ UNCHANGED <<config, main_pc, fs, tailer, metrics, stat_failed, history, feed>>

\* Line 225 raises KeyError on a summary without 'validator': caught at 234,
\* new_mapping is dropped, then the sleep of 237.
AddEntryError ==
  /\ refresh_pc = "build"
  /\ summary_i < Len(response)
  /\ "validator" \notin DOMAIN response[summary_i + 1]
  /\ refresh_pc' = "fetch"
  /\ UNCHANGED <<validator_mapping, response, new_mapping, summary_i, validator_count,
                 refreshes, installed, late_resolved, lookup>>
  /\ UNCHANGED <<config, main_pc, fs, tailer, metrics, stat_failed, history, feed>>

\* Mutant: publishing also drops the fallback series of the addresses that
\* are cached now.
Publish_pruning ==
  /\ refresh_pc = "build"
  /\ summary_i = Len(response)
  /\ validator_mapping' = new_mapping
  /\ validator_count' = Len(response)
  /\ installed' = MappingOf(response)
  /\ late_resolved' = late_resolved \cup
        { short \in DOMAIN new_mapping : <<short, "Unknown">> \in DOMAIN jailed_status }
  /\ jailed_status' = [k \in { l \in DOMAIN jailed_status :
                                 ~(l[1] \in DOMAIN new_mapping /\ l[2] = "Unknown") } |->
                         jailed_status[k]]
  /\ refresh_pc' = "fetch"
  /\ UNCHANGED <<response, new_mapping, summary_i, refreshes, lookup>>
  /\ UNCHANGED <<proposer_counter, block_gauges>>
  /\ UNCHANGED <<config, main_pc, fs, tailer, stat_failed, history, feed>>

\* Lines 229-231: the global is rebound to new_mapping and the count gauge
\* set; then the sleep of 237.
Publish ==
  /\ refresh_pc = "build"
  /\ summary_i = Len(response)
  /\ validator_mapping' = new_mapping
  /\ validator_count' = Len(response)
  /\ installed' = MappingOf(response)
  /\ late_resolved' = late_resolved \cup
        { short \in DOMAIN new_mapping : <<short, "Unknown">> \in DOMAIN jailed_status }
  /\ refresh_pc' = "fetch"
  /\ UNCHANGED <<response, new_mapping, summary_i, refreshes, lookup>>
  /\ UNCHANGED <<config, main_pc, fs, tailer, metrics, stat_failed, history, feed>>

\* Lines 259-261 for one participating short address: the cache is read once
\* (validator_mapping.get), the labels come from the entry that was read.
Lookup(validator_short) ==
  /\ lookup' = [short |-> validator_short,
                answer |-> resolve(validator_mapping, validator_short),
                during |-> refresh_pc, built |-> summary_i]
  /\ UNCHANGED <<validator_mapping, refresh_pc, response, new_mapping, summary_i,
                 validator_count, refreshes, installed, late_resolved>>
  /\ UNCHANGED <<config, main_pc, fs, tailer, metrics, stat_failed, history, feed>>

InitCache ==
  /\ live = {}
  /\ is_validator = TRUE
  /\ validator_address = "0xV"
  /\ main_pc = 4
  /\ dir_exists = [f \in Families |-> FALSE]
  /\ fstate = [f \in Families |-> NoFiles]
  /\ flines = [f \in Families |-> [p \in Paths |-> <<>>]]
  /\ fmtime = FreshTimes
  /\ feed_fam = "consensus" /\ feed_in = <<>> /\ feed_pos = 0
  /\ pc = [f \in Families |-> IF f = "consensus" THEN "read" ELSE "unstarted"]
  /\ validator_mapping = <<>>
  /\ InitCommon

NextCache ==
  \/ StartRefresher
  \/ Fetch
  \/ FetchError
  \/ AddEntry
  \/ AddEntryError
  \/ Publish
  \/ \E validator_short \in Shorts : Lookup(validator_short)

SpecCache == InitCache /\ [][NextCache]_vars

\* The complete mappings a lookup may be answered from: the one the last
\* completed refresh left and, while a refresh is building, the one its
\* response stands for.
CompleteMappings ==
  {installed} \cup (IF refresh_pc = "build" /\ Valid(response)
                    THEN {MappingOf(response)} ELSE {})

\* C12: every lookup is answered from the complete mapping before the
\* refresh in progress or from the complete mapping after it, never from a
\* mapping that holds part of the new entries or a mix of old and new.
C12_LookupSeesCompleteMapping ==
  [][lookup' # lookup =>
       /\ validator_mapping \in CompleteMappings
       /\ \E mapping \in CompleteMappings :
            lookup'.answer = resolve(mapping, lookup'.short)]_vars

\* C12 witness: a lookup ran while the refresher had entered a different
\* entry for the same short address into its new mapping, and was answered
\* from the old complete mapping.
C12_Witness ==
  /\ lookup.during = "build" /\ lookup.built >= 1
  /\ refresh_pc = "build" /\ summary_i = lookup.built
  /\ lookup.short \in DOMAIN new_mapping
  /\ lookup.short \in DOMAIN installed
  /\ new_mapping[lookup.short] # installed[lookup.short]
  /\ lookup.answer = resolve(installed, lookup.short)

\* C13: the cache changes only by a successful refresh, which leaves exactly
\* the entries of its response (one per short address, nothing carried
\* over); a refresh that fails leaves the cache as it was.
C13_FullReplacement ==
  [][/\ (refresh_pc = "build" /\ refresh_pc' = "fetch" /\ Valid(response))
          => validator_mapping' = MappingOf(response)
     /\ (refresh_pc = "build" /\ refresh_pc' = "fetch" /\ ~Valid(response))
          => validator_mapping' = validator_mapping
     /\ (refreshes' # refreshes /\ refresh_pc' = "fetch")
          => validator_mapping' = validator_mapping
     /\ validator_mapping' # validator_mapping
          => (refresh_pc = "build" /\ refresh_pc' = "fetch")]_vars

\* C13 witness: Alice and Bob were cached, the next response named only Bob:
\* after that refresh Alice's short address no longer resolves; a lookup of
\* it was answered with the fallback.
C13_Witness ==
  /\ refreshes = 2 /\ refresh_pc = "fetch"
  /\ response = <<S_Bob>>
  /\ DOMAIN validator_mapping = {"0xbbbb..0002"}
  /\ validator_count = 1
  /\ "0xaaaa..0001" \notin DOMAIN validator_mapping
  /\ lookup.during = "fetch" /\ lookup.built = 1
  /\ lookup.short = "0xaaaa..0001" /\ lookup.answer = <<"0xaaaa..0001", "Unknown">>

\* ----------------------------------------------------------- SpecPipelines
\* The three pipelines side by side: every directory is live, each one
\* missing, empty or holding the empty file 0001 when the process starts.
InitPipelines ==
  /\ live = Families
  /\ \E starts \in [Families -> {"no directory", "empty", "one file"}] :
       /\ dir_exists = [f \in Families |-> starts[f] # "no directory"]
       /\ fstate = [f \in Families |->
                      IF starts[f] = "one file"
                      THEN [NoFiles EXCEPT !["0001"] = "present"] ELSE NoFiles]
  /\ flines = [f \in Families |-> [p \in Paths |-> <<>>]]
  /\ fmtime = FreshTimes
  /\ is_validator \in BOOLEAN
  /\ validator_address = "0xV"
  /\ main_pc = 1
  /\ pc = [f \in Families |-> "unstarted"]
  /\ validator_mapping = <<>>
  /\ feed_fam = "proposer" /\ feed_in = <<>> /\ feed_pos = 0
  /\ InitCommon

\* The node writes one file per directory here (no rotation).
NextPipelines ==
  \/ StartProposal
  \/ StartBlock
  \/ StartConsensus
  \/ \E f \in live : Started /\ MonitorInit(f)
  \/ \E f \in live : Started /\ WatcherFault(f)
  \/ \E f \in live : Started /\ LoopTop(f)
  \/ \E f \in live : Started /\ OpenFile(f)
  \/ \E f \in live : Started /\ OpenError(f)
  \/ \E f \in live : Started /\ ReadLine(f)
  \/ \E f \in live : Started /\ ReadEof(f)
  \/ \E f \in live : Started /\ StreamError(f)
  \/ \E f \in live : Started /\ CheckRotation(f)
  \/ \E f \in live : Started /\ Sleep(f)
  \/ \E f \in live : Started /\ MakeDir(f)
  \/ \E f \in live : Started /\ CreateFile(f, "0001")
  \/ \E f \in live : \E line \in TailLines(f) : Started /\ AppendLine(f, "0001", line)

SpecPipelines == InitPipelines /\ [][NextPipelines]_vars

\* One family's tailer state and the metric its extractor writes.
TailerState(f) == <<pc[f], latest_file[f], first_run[f], file_path[f], offset[f], delivered[f]>>
MetricOf(f) ==
  CASE f = "proposer" -> <<proposer_counter>>
    [] f = "block" -> <<block_gauges>>
    [] OTHER -> <<jailed_status>>
Siblings(f) == Families \ {f}

\* C14: if the consensus directory does not exist when the consensus pipeline
\* starts, the pipeline returns at once and never streams, also when the
\* directory appears later: no jailed-status observation is produced; the step
\* leaves the proposer and block pipelines as they are.
C14_ConsensusDeclinesToStart ==
  [][/\ (pc["consensus"] = "init" /\ ~dir_exists["consensus"]
           /\ pc'["consensus"] # pc["consensus"])
          => /\ pc'["consensus"] = "returned"
             /\ \A g \in Siblings("consensus") :
                  TailerState(g)' = TailerState(g) /\ MetricOf(g)' = MetricOf(g)
     /\ pc["consensus"] = "returned"
          => /\ TailerState("consensus")' = TailerState("consensus")
             /\ file_path["consensus"] = None
             /\ jailed_status = <<>> /\ jailed_status' = <<>>]_vars

\* C14 witness: the consensus pipeline has returned, its directory appeared
\* afterwards and nothing was observed from it, while the proposer and block
\* pipelines each processed a line.
C14_Witness ==
  /\ pc["consensus"] = "returned"
  /\ dir_exists["consensus"]
  /\ jailed_status = <<>>
  /\ counter_value(proposer_counter, "0xA") = 1
  /\ block_gauges.height = 1000
  /\ pc["proposer"] = "read" /\ pc["block"] = "read"

\* C15: a step that changes one family's tailer state or metric, failures
\* included, leaves the tailer state and the metric of every other family
\* unchanged (in particular it terminates no other tailer).
C15_PipelineIndependence ==
  [][\A f \in Families :
       (TailerState(f)' # TailerState(f) \/ MetricOf(f)' # MetricOf(f))
         => \A g \in Siblings(f) :
              TailerState(g)' = TailerState(g) /\ MetricOf(g)' = MetricOf(g)]_vars

\* C15 witness: the block tailer is dead and the consensus tailer is in its
\* error backoff, while the proposer tailer has delivered a line and streams.
C15_Witness ==
  /\ pc["block"] = "dead"
  /\ pc["consensus"] = "sleep_failed"
  /\ pc["proposer"] = "read"
  /\ counter_value(proposer_counter, "0xA") = 1

\* -------------------------------------------------------------- SpecSeries
\* The consensus extractor fed well-formed lines while the refresher replaces
\* the cache between them.
SeriesLines == {LC_1, LC_2, LC_NoJailed}

InitSeries ==
  /\ live = {}
  /\ is_validator = TRUE
  /\ validator_address = "0xV"
  /\ main_pc = 4
  /\ dir_exists = [f \in Families |-> FALSE]
  /\ fstate = [f \in Families |-> NoFiles]
  /\ flines = [f \in Families |-> [p \in Paths |-> <<>>]]
  /\ fmtime = FreshTimes
  /\ feed_fam = "consensus"
  /\ feed_in \in SeqsUpTo(SeriesLines, MaxFeed)
  /\ feed_pos = 0
  /\ pc = [f \in Families |-> IF f = "consensus" THEN "read" ELSE "unstarted"]
  /\ validator_mapping = <<>>
  /\ InitCommon

NextSeries ==
  \/ StartRefresher
  \/ Fetch
  \/ FetchError
  \/ AddEntry
  \/ AddEntryError
  \/ Publish
  \/ Feed

SpecSeries == InitSeries /\ [][NextSeries]_vars

\* C21 as claimed: once a short address that was observed during a cache miss
\* has been added to the cache by a refresh, its (short address, "Unknown")
\* series is never written again: it keeps its value in every later step.
C21_FallbackSeriesNeverWrittenAgain ==
  [][\A short \in late_resolved :
       jailed_status'[<<short, "Unknown">>] = jailed_status[<<short, "Unknown">>]]_vars

\* C21 as amended: a consensus line processed while the cache holds a short
\* address writes, for that address, only the series of its cached (full
\* address, name) labels; the (short address, "Unknown") series written
\* during an earlier miss keeps its value in that step, and so does every
\* series whose labels no participating address resolves to now (a renamed or
\* removed validator's old series).  A refresh writes and removes no series.
C21_StaleSeriesKeptWhileCached ==
  [][LET fed == feed_pos' = feed_pos + 1
         line == feed_in[feed_pos']
         written == IF fed THEN { resolve(validator_mapping, short) : short \in Participating(line) }
                    ELSE {}
     IN /\ \A k \in DOMAIN jailed_status \ written :
             k \in DOMAIN jailed_status' /\ jailed_status'[k] = jailed_status[k]
        /\ fed => \A short \in DOMAIN validator_mapping :
             /\ <<short, "Unknown">> \notin written
             /\ short \in Participating(line) =>
                  jailed_status'[<<validator_mapping[short].full_address,
                                   validator_mapping[short].name>>] = JailedBit(line, short)]_vars

\* C21 witness: 0xbbbb..0002 was observed not jailed during a miss, a refresh
\* cached it, and the next line reported it jailed: the validator has two
\* series, the fallback one still at 0 and the cached one at 1.
C21_Witness ==
  /\ feed_pos = 2
  /\ "0xbbbb..0002" \in late_resolved
  /\ "0xbbbb..0002" \in DOMAIN validator_mapping
  /\ jailed_status[<<"0xbbbb..0002", "Unknown">>] = 0
  /\ <<FullB, "Unknown">> \in DOMAIN jailed_status
  /\ jailed_status[<<FullB, "Unknown">>] = 1
====
